---- MODULE Spec2Model ----
(***************************************************************************)
(* Model of api/index.py: a FastAPI application with a start-up section    *)
(* that reads GEMINI_API_KEY and configures the Gemini client, and three   *)
(* coroutine handlers (GET /, POST /generate, GET /items/{item_id}) that   *)
(* run on one event loop.                                                  *)
(*                                                                         *)
(* Python values are encoded as follows.  An optional value (None or a     *)
(* string) is a sequence of length 0 or 1.  An exception is the sequence   *)
(* of its constructor arguments.  A decimal rendering of an integer is a   *)
(* sequence of one-character strings.                                      *)
(***************************************************************************)
EXTENDS Integers, Sequences, FiniteSets, TLC

VARIABLES environ, dotenv, boot, api_key, configureCalls, configuredKey,
          handledAtConfigure, req, pc, loop, resp, models, upstreamCalls,
          outcome

vars == <<environ, dotenv, boot, api_key, configureCalls, configuredKey,
          handledAtConfigure, req, pc, loop, resp, models, upstreamCalls,
          outcome>>

globals == <<environ, dotenv, boot, api_key, configureCalls, configuredKey,
             handledAtConfigure>>

(* ------------------------------ bounds --------------------------------- *)

NumRequests == 2

MaxItemId == 10

(* ------------------------------ inputs --------------------------------- *)

RequestIds == 1..NumRequests

None == <<>>

Some(v) == <<v>>

KeyValues == {None, Some(""), Some("secret")}

Prompts == {"", "hello"}

Texts == {"", "world"}

Exceptions == {<<>>, <<"quota exceeded">>}

\* Path parameters: both signs, zero, one and two decimal digits.
ItemIds == {0 - MaxItemId, 1 - MaxItemId, -1, 0, 1, MaxItemId - 1, MaxItemId}

QueryParams == {None, Some(""), Some("X")}

\* JSON bodies of POST /generate: not parseable as an object, or an object
\* whose "prompt" member is missing, null or a string.
Bodies ==
    {[json |-> FALSE, prompt |-> None]}
    \cup {[json |-> TRUE, prompt |-> None]}
    \cup {[json |-> TRUE, prompt |-> <<"null", "">>]}
    \cup {[json |-> TRUE, prompt |-> <<"str", p>>] : p \in Prompts}

NoBody == [json |-> FALSE, prompt |-> None]

Requests ==
    {[kind |-> "root", item_id |-> 0, query_param |-> None, body |-> NoBody]}
    \cup {[kind |-> "item", item_id |-> i, query_param |-> q, body |-> NoBody] :
            i \in ItemIds, q \in QueryParams}
    \cup {[kind |-> "generate", item_id |-> 0, query_param |-> None, body |-> b] :
            b \in Bodies}

NoRequest == [kind |-> "none", item_id |-> 0, query_param |-> None, body |-> NoBody]

(* --------------------------- pure helpers ------------------------------ *)

\* Python truthiness of an optional string: None and "" are falsy.
Truthy(v) == v # None /\ v[1] # ""

\* str(e) of an exception built from its argument tuple.
Str(e) == IF Len(e) = 0 THEN "" ELSE e[1]

DigitChar == <<"0", "1", "2", "3", "4", "5", "6", "7", "8", "9">>

RECURSIVE Digits(_)
Digits(n) == IF n < 10 THEN <<DigitChar[n + 1]>>
             ELSE Digits(n \div 10) \o <<DigitChar[(n % 10) + 1]>>

\* format(item_id) inside the f-string.
IntStr(n) == IF n < 0 THEN <<"-">> \o Digits(0 - n) ELSE Digits(n)

\* f"This is item number {item_id}"
Description(item_id) == <<"This is item number ">> \o IntStr(item_id)

ModelName == "gemini-2.5-flash"

\* Variant: the prompt is lost on the way to generate_content.
MutUpstreamArgs(prompt) == <<ModelName, "">>

\* Arguments that reach the upstream: the model identifier given to
\* GenerativeModel and the prompt given to generate_content.
UpstreamArgs(prompt) == <<ModelName, prompt>>

\* Variant: prompt declared without its type, so that null is accepted.
MutValidBody(b) == b.json /\ b.prompt # None

\* PromptRequest: the body is an object with a member prompt of type str.
ValidBody(b) == b.json /\ b.prompt # None /\ b.prompt[1] = "str"

RootPayload == [message |-> "Hello from FastAPI Backend! Gemini is ready."]

TextResponse(t) == [status |-> 200, body |-> [text |-> t]]

\* Variant: the except clause forgets status_code=500.
MutErrorResponse(e) == [status |-> 200, body |-> [error |-> Str(e)]]

ErrorResponse(e) == [status |-> 500, body |-> [error |-> Str(e)]]

ValidationResponse == [status |-> 422, body |-> [detail |-> "validation error"]]

\* Variant: "if query_param is not None" in place of "if query_param".
MutItemData(item_id, query_param) ==
    IF query_param # None
    THEN [item_id |-> item_id, description |-> Description(item_id),
          query_param |-> query_param[1]]
    ELSE [item_id |-> item_id, description |-> Description(item_id)]

ItemData(item_id, query_param) ==
    IF Truthy(query_param)
    THEN [item_id |-> item_id, description |-> Description(item_id),
          query_param |-> query_param[1]]
    ELSE [item_id |-> item_id, description |-> Description(item_id)]

(* ------------------------------ start-up ------------------------------- *)

Init ==
    /\ environ \in KeyValues
    /\ dotenv \in {None, Some("secret")}
    /\ boot = "import"
    /\ api_key = None
    /\ configureCalls = 0
    /\ configuredKey = None
    /\ handledAtConfigure = 0
    /\ req = [r \in RequestIds |-> NoRequest]
    /\ pc = [r \in RequestIds |-> "idle"]
    /\ loop = 0
    /\ resp = [r \in RequestIds |-> None]
    /\ models = [r \in RequestIds |-> 0]
    /\ upstreamCalls = [r \in RequestIds |-> <<>>]
    /\ outcome = [r \in RequestIds |-> None]

Handled == {r \in RequestIds : pc[r] \notin {"idle", "arrived"}}

\* load_dotenv(): a variable already in the environment is not overridden.
LoadDotenv ==
    /\ boot = "import"
    /\ environ' = IF environ = None THEN dotenv ELSE environ
    /\ boot' = "loaded"
    /\ UNCHANGED <<dotenv, api_key, configureCalls, configuredKey,
                   handledAtConfigure, req, pc, loop, resp, models,
                   upstreamCalls, outcome>>

\* Variant: the missing key is only printed, the ValueError is not raised.
MutConfigure ==
    /\ boot = "loaded"
    /\ api_key' = environ
    /\ boot' = "serving"
    /\ IF ~Truthy(environ)
       THEN UNCHANGED <<configureCalls, configuredKey, handledAtConfigure>>
       ELSE /\ configureCalls' = configureCalls + 1
            /\ configuredKey' = environ
            /\ handledAtConfigure' = Cardinality(Handled)
    /\ UNCHANGED <<environ, dotenv, req, pc, loop, resp, models,
                   upstreamCalls, outcome>>

\* api_key = os.environ.get(...); if not api_key: raise ValueError
\* else: genai.configure(api_key=api_key)
Configure ==
    /\ boot = "loaded"
    /\ api_key' = environ
    /\ IF ~Truthy(environ)
       THEN /\ boot' = "aborted"
            /\ UNCHANGED <<configureCalls, configuredKey, handledAtConfigure>>
       ELSE /\ boot' = "serving"
            /\ configureCalls' = configureCalls + 1
            /\ configuredKey' = environ
            /\ handledAtConfigure' = Cardinality(Handled)
    /\ UNCHANGED <<environ, dotenv, req, pc, loop, resp, models,
                   upstreamCalls, outcome>>

(* ------------------------------ requests ------------------------------- *)

\* A client sends a request; the server accepts it once the app is served.
\* Requests are numbered in their order of arrival.
Arrive(r) ==
    /\ boot = "serving"
    /\ pc[r] = "idle"
    /\ \A q \in 1..(r - 1) : pc[q] # "idle"
    /\ \E q \in Requests : req' = [req EXCEPT ![r] = q]
    /\ pc' = [pc EXCEPT ![r] = "arrived"]
    /\ UNCHANGED <<globals, loop, resp, models, upstreamCalls, outcome>>

\* The event loop is free to start running the handler of request r.
Runnable(r) == boot = "serving" /\ pc[r] = "arrived" /\ loop = 0

Finish(r, response) ==
    /\ resp' = [resp EXCEPT ![r] = Some(response)]
    /\ pc' = [pc EXCEPT ![r] = "done"]

\* Schema validation of the body of POST /generate fails before the handler.
Reject(r) ==
    /\ Runnable(r)
    /\ req[r].kind = "generate"
    /\ ~ValidBody(req[r].body)
    /\ Finish(r, ValidationResponse)
    /\ UNCHANGED <<globals, req, loop, models, upstreamCalls, outcome>>

\* Variant: the handler configures the client again on every request.
Mutread_root(r) ==
    /\ Runnable(r)
    /\ req[r].kind = "root"
    /\ Finish(r, [status |-> 200, body |-> RootPayload])
    /\ configureCalls' = configureCalls + 1
    /\ UNCHANGED <<environ, dotenv, boot, api_key, configuredKey,
                   handledAtConfigure, req, loop, models, upstreamCalls,
                   outcome>>

read_root(r) ==
    /\ Runnable(r)
    /\ req[r].kind = "root"
    /\ Finish(r, [status |-> 200, body |-> RootPayload])
    /\ UNCHANGED <<globals, req, loop, models, upstreamCalls, outcome>>

read_item(r) ==
    /\ Runnable(r)
    /\ req[r].kind = "item"
    /\ Finish(r, [status |-> 200,
                  body |-> ItemData(req[r].item_id, req[r].query_param)])
    /\ UNCHANGED <<globals, req, loop, models, upstreamCalls, outcome>>

GenerateRunnable(r) ==
    /\ Runnable(r)
    /\ req[r].kind = "generate"
    /\ ValidBody(req[r].body)

\* genai.GenerativeModel(...) raises: the except clause answers.
GenerateModelRaises(r) ==
    /\ GenerateRunnable(r)
    /\ \E e \in Exceptions :
        /\ outcome' = [outcome EXCEPT ![r] = Some(<<"model_raises", Str(e)>>)]
        /\ Finish(r, ErrorResponse(e))
    /\ UNCHANGED <<globals, req, loop, models, upstreamCalls>>

\* The model is built and generate_content(prompt) is entered.  The call is
\* synchronous inside the coroutine: the event loop stays with r until it
\* comes back.
GenerateCall(r) ==
    /\ GenerateRunnable(r)
    /\ models' = [models EXCEPT ![r] = @ + 1]
    /\ upstreamCalls' = [upstreamCalls EXCEPT
                            ![r] = Append(@, UpstreamArgs(req[r].body.prompt[2]))]
    /\ loop' = r
    /\ pc' = [pc EXCEPT ![r] = "calling"]
    /\ UNCHANGED <<globals, req, resp, outcome>>

\* Variant: a failed generate_content is tried a second time.
MutUpstreamRaises(r) ==
    /\ pc[r] = "calling"
    /\ loop = r
    /\ upstreamCalls' = [upstreamCalls EXCEPT
                            ![r] = Append(@, UpstreamArgs(req[r].body.prompt[2]))]
    /\ \E e \in Exceptions :
        /\ outcome' = [outcome EXCEPT ![r] = Some(<<"call_raises", Str(e)>>)]
        /\ Finish(r, ErrorResponse(e))
    /\ loop' = 0
    /\ UNCHANGED <<globals, req, models>>

\* generate_content raises.
UpstreamRaises(r) ==
    /\ pc[r] = "calling"
    /\ loop = r
    /\ \E e \in Exceptions :
        /\ outcome' = [outcome EXCEPT ![r] = Some(<<"call_raises", Str(e)>>)]
        /\ Finish(r, ErrorResponse(e))
    /\ loop' = 0
    /\ UNCHANGED <<globals, req, models, upstreamCalls>>

\* generate_content returns, but reading response.text raises.
TextRaises(r) ==
    /\ pc[r] = "calling"
    /\ loop = r
    /\ \E e \in Exceptions :
        /\ outcome' = [outcome EXCEPT ![r] = Some(<<"text_raises", Str(e)>>)]
        /\ Finish(r, ErrorResponse(e))
    /\ loop' = 0
    /\ UNCHANGED <<globals, req, models, upstreamCalls>>

\* generate_content returns a response whose text is t.
UpstreamReturns(r) ==
    /\ pc[r] = "calling"
    /\ loop = r
    /\ \E t \in Texts :
        /\ outcome' = [outcome EXCEPT ![r] = Some(<<"text", t>>)]
        /\ Finish(r, TextResponse(t))
    /\ loop' = 0
    /\ UNCHANGED <<globals, req, models, upstreamCalls>>

generate_content_endpoint(r) ==
    \/ GenerateModelRaises(r)
    \/ GenerateCall(r)
    \/ UpstreamRaises(r)
    \/ TextRaises(r)
    \/ UpstreamReturns(r)

Next ==
    \/ LoadDotenv
    \/ Configure
    \/ \E r \in RequestIds : Arrive(r)
    \/ \E r \in RequestIds : Reject(r)
    \/ \E r \in RequestIds : read_root(r)
    \/ \E r \in RequestIds : read_item(r)
    \/ \E r \in RequestIds : generate_content_endpoint(r)

Spec == Init /\ [][Next]_vars

TypeOK ==
    /\ environ \in KeyValues
    /\ boot \in {"import", "loaded", "aborted", "serving"}
    /\ loop \in 0..NumRequests
    /\ \A r \in RequestIds : Len(resp[r]) <= 1

(* ------------------------- claim-side helpers -------------------------- *)

Done(r) == pc[r] = "done" /\ resp[r] # None

Response(r) == resp[r][1]

\* A body that is not a JSON object carrying a string under "prompt".
Malformed(b) == \/ ~b.json
                \/ b.prompt = None
                \/ b.prompt[1] # "str"

GenerateRequest(r) == req[r].kind = "generate" /\ ~Malformed(req[r].body)

Failed(r) ==
    /\ outcome[r] # None
    /\ outcome[r][1][1] \in {"model_raises", "call_raises", "text_raises"}

DigitValue(c) == CHOOSE d \in 0..9 : DigitChar[d + 1] = c

RECURSIVE ParseNat(_)
ParseNat(s) == IF Len(s) = 0 THEN 0
               ELSE 10 * ParseNat(SubSeq(s, 1, Len(s) - 1)) + DigitValue(s[Len(s)])

ParseInt(s) == IF s[1] = "-" THEN 0 - ParseNat(Tail(s)) ELSE ParseNat(s)

(* -------------------------------- C1 ----------------------------------- *)

\* C1: whenever model construction, the generate call or the read of the
\* text field raised for a valid POST /generate, the response is 500, its
\* body has an "error" member holding a non-empty string and no "text".
C1_ErrorBodyNonEmpty ==
    \A r \in RequestIds :
        (GenerateRequest(r) /\ Failed(r)) =>
            /\ Done(r)
            /\ Response(r).status = 500
            /\ DOMAIN Response(r).body = {"error"}
            /\ Response(r).body.error # ""

(* -------------------------------- C2 ----------------------------------- *)

\* C2: a POST /generate whose body lacks prompt or is otherwise malformed
\* is answered 422, and no model is built and no upstream call is made
\* for it at any time.
C2_MalformedNeverReachesUpstream ==
    \A r \in RequestIds :
        (req[r].kind = "generate" /\ Malformed(req[r].body)) =>
            /\ models[r] = 0
            /\ upstreamCalls[r] = <<>>
            /\ outcome[r] = None
            /\ pc[r] \in {"arrived", "done"}
            /\ Done(r) => Response(r).status = 422

C2_Witness ==
    \E r \in RequestIds :
        /\ req[r].kind = "generate"
        /\ req[r].body.json
        /\ req[r].body.prompt = None
        /\ Done(r)
        /\ Response(r).status = 422

(* -------------------------------- C3 ----------------------------------- *)

\* C3: for a valid POST /generate with prompt p every upstream call names
\* the model gemini-2.5-flash and carries p unchanged, the call has been
\* made once the request waits on or has got a result from the upstream,
\* and when the upstream returned text t the response is 200 {"text": t}.
C3_PromptVerbatimTextReturned ==
    \A r \in RequestIds :
        GenerateRequest(r) =>
            /\ \A i \in 1..Len(upstreamCalls[r]) :
                    upstreamCalls[r][i] = <<"gemini-2.5-flash", req[r].body.prompt[2]>>
            /\ pc[r] = "calling" => Len(upstreamCalls[r]) = 1
            /\ (outcome[r] # None /\ outcome[r][1][1] = "text") =>
                    /\ Len(upstreamCalls[r]) = 1
                    /\ resp[r] = Some([status |-> 200,
                                       body |-> [text |-> outcome[r][1][2]]])

C3_Witness ==
    \E r \in RequestIds :
        /\ GenerateRequest(r)
        /\ req[r].body.prompt[2] = "hello"
        /\ outcome[r] = Some(<<"text", "world">>)
        /\ Done(r)

(* -------------------------------- C4 ----------------------------------- *)

\* C4: every response of the POST /generate handler has exactly one of the
\* members text and error; its status is 200 exactly when it has text and
\* 500 exactly when it has error.
C4_ExactlyOneOfTextError ==
    \A r \in RequestIds :
        (GenerateRequest(r) /\ Done(r)) =>
            /\ DOMAIN Response(r).body \in {{"text"}, {"error"}}
            /\ Response(r).status = 200 <=> "text" \in DOMAIN Response(r).body
            /\ Response(r).status = 500 <=> "error" \in DOMAIN Response(r).body

C4_Witness ==
    \E r, q \in RequestIds :
        /\ GenerateRequest(r) /\ Done(r) /\ Response(r).status = 200
        /\ GenerateRequest(q) /\ Done(q) /\ Response(q).status = 500

(* -------------------------------- C5 ----------------------------------- *)

\* C5: while no credential has been read the client is not configured and
\* no request is accepted; a start-up that found no credential has
\* aborted; and once a request has been handled the credential is present
\* and the client was configured exactly once, with that credential, when
\* no request had been handled yet.
C5_NoServingWithoutKey ==
    /\ api_key = None =>
            /\ configureCalls = 0
            /\ \A r \in RequestIds : pc[r] = "idle"
            /\ boot \in {"import", "loaded", "aborted"}
    /\ (boot \notin {"import", "loaded"} /\ environ = None) => boot = "aborted"
    /\ Handled # {} =>
            /\ environ # None
            /\ api_key = environ
            /\ configureCalls = 1
            /\ configuredKey = api_key
            /\ handledAtConfigure = 0

C5_Witness ==
    /\ Handled # {}
    /\ configureCalls = 1
    /\ configuredKey = Some("secret")

(* -------------------------------- C6 ----------------------------------- *)

\* C6: while one POST /generate waits on its upstream call, every other
\* request that has arrived for GET / or GET /items/{item_id} can be
\* served.
C6_OthersServedWhileUpstreamPending ==
    \A r, q \in RequestIds :
        (/\ r # q
         /\ pc[r] = "calling"
         /\ pc[q] = "arrived"
         /\ req[q].kind \in {"root", "item"}) =>
            ENABLED (read_root(q) \/ read_item(q))

(* -------------------------------- C7 ----------------------------------- *)

\* C7: GET /items/{item_id} answers 200 with item_id, a description made
\* of "This is item number " followed by the decimal form of item_id, and
\* a query_param member echoing the supplied value exactly when one was
\* supplied and is non-empty; otherwise there is no such member.
C7_ItemEcho ==
    \A r \in RequestIds :
        (req[r].kind = "item" /\ Done(r)) =>
            LET b == Response(r).body
                q == req[r].query_param
            IN  /\ Response(r).status = 200
                /\ b.item_id = req[r].item_id
                /\ Head(b.description) = "This is item number "
                /\ ParseInt(Tail(b.description)) = req[r].item_id
                /\ "query_param" \in DOMAIN b <=> (q # None /\ q[1] # "")
                /\ "query_param" \in DOMAIN b => b.query_param = q[1]
                /\ DOMAIN b \subseteq {"item_id", "description", "query_param"}

C7_Witness ==
    \E r, q \in RequestIds :
        /\ req[r].kind = "item" /\ Done(r)
        /\ req[r].item_id = 0 - MaxItemId
        /\ req[r].query_param = Some("X")
        /\ Response(r).body.query_param = "X"
        /\ req[q].kind = "item" /\ Done(q)
        /\ req[q].query_param = Some("")
        /\ DOMAIN Response(q).body = {"item_id", "description"}

(* -------------------------------- C8 ----------------------------------- *)

\* C8: every prompt forwarded to the upstream is non-empty, and a request
\* whose prompt is the empty string never gets past validation.
C8_ForwardedPromptNonEmpty ==
    \A r \in RequestIds :
        /\ \A i \in 1..Len(upstreamCalls[r]) : upstreamCalls[r][i][2] # ""
        /\ (/\ req[r].kind = "generate"
            /\ req[r].body.prompt = <<"str", "">>) =>
                /\ models[r] = 0
                /\ Done(r) => Response(r).status = 422

(* -------------------------------- C9 ----------------------------------- *)

\* C9: whatever was requested before, an answered GET / carries status 200
\* and the fixed message, and no step of a request changes the state that
\* outlives it (environment, credential, client configuration).
C9_RootFixedAndStateless ==
    /\ [](\A r \in RequestIds :
            (req[r].kind = "root" /\ pc[r] = "done") =>
                resp[r] = Some([status |-> 200,
                                body |-> [message |->
                                   "Hello from FastAPI Backend! Gemini is ready."]]))
    /\ [][(pc' # pc) => (globals' = globals)]_vars

C9_Witness ==
    \E r, q \in RequestIds :
        /\ req[r].kind = "root" /\ Done(r)
        /\ GenerateRequest(q) /\ Done(q) /\ Response(q).status = 500

(* -------------------------------- C10 ---------------------------------- *)

\* C10 as stated: an answered valid POST /generate made exactly one
\* upstream generation call, and GET requests made none.
C10_ExactlyOneUpstreamCall ==
    \A r \in RequestIds :
        /\ (GenerateRequest(r) /\ Done(r)) => Len(upstreamCalls[r]) = 1
        /\ req[r].kind \in {"root", "item"} => Len(upstreamCalls[r]) = 0

\* C10 amended: a request never makes more than one upstream generation
\* call; an answered valid POST /generate made exactly one unless building
\* the model raised, in which case it made none; a failed call is not
\* repeated; GET requests and rejected bodies make none.
C10_AtMostOneUpstreamCall ==
    \A r \in RequestIds :
        /\ Len(upstreamCalls[r]) <= 1
        /\ (GenerateRequest(r) /\ Done(r)) =>
                (Len(upstreamCalls[r]) = 1 <=> outcome[r][1][1] # "model_raises")
        /\ ~GenerateRequest(r) => Len(upstreamCalls[r]) = 0

C10_Witness ==
    \E r, q \in RequestIds :
        /\ GenerateRequest(r) /\ Done(r)
        /\ outcome[r][1][1] = "call_raises"
        /\ Len(upstreamCalls[r]) = 1
        /\ req[q].kind \in {"root", "item"} /\ Done(q)

====
